---- MODULE Spec2Model ----
(***************************************************************************)
(* CareNet API (api/index.py): the onboarding routes, GET /auth/me and     *)
(* GET /health, as a state machine.  A request is a process whose steps    *)
(* are the blocking calls it makes to the identity provider and to the     *)
(* data store; between two calls of one request any other request may run. *)
(***************************************************************************)
EXTENDS Naturals, Sequences, FiniteSets

VARIABLES
    url, anon_key, service_role_key,   \* os.environ at import time
    supabase, supabase_admin,          \* the two module-level client handles
    users, professional_profiles,      \* the store's tables, in insertion order
    elderly_profiles, medical_info,
    req                                \* the requests: position, inputs, locals, response

vars == <<url, anon_key, service_role_key, supabase, supabase_admin,
          users, professional_profiles, elderly_profiles, medical_info, req>>

env == <<url, anon_key, service_role_key, supabase, supabase_admin>>
tables == <<users, professional_profiles, elderly_profiles, medical_info>>

----------------------------------------------------------------------------
(* Bounds *)

\* number of requests the service receives in a run of Spec
MaxReq == 2
\* longest allergies / conditions / medications list of a caregiver request
\* in a run of SpecOne
MaxList == 2

\* whether the run receives a single request; the inputs of a run of several
\* requests are drawn from a part of the inputs of a run of one
Solo == Cardinality(DOMAIN req) = 1

----------------------------------------------------------------------------
(* Python values *)

None == "None"

\* bool(v) of an Optional[str]: None and "" are falsy
Truthy(v) == v # None /\ v # ""

\* a or b
PyOr(a, b) == IF Truthy(a) THEN a ELSE b

\* dict.get(k)
DictGet(d, k) == IF k \in DOMAIN d THEN d[k] ELSE None

----------------------------------------------------------------------------
(* Start-up: the module-level client construction *)

\* client handles: no client, the client built from the anon key, the client
\* built from the service role key (create_client returns a new object)
NoClient == "None"
AnonClient == "client(anon_key)"
ServiceClient == "client(service_role_key)"

MkSupabase(u, a) == IF Truthy(u) /\ Truthy(a) THEN AnonClient ELSE NoClient

MkSupabaseAdmin(u, a, s, sb) ==
    IF Truthy(u) /\ Truthy(s) THEN ServiceClient
    ELSE IF Truthy(u) /\ Truthy(a) THEN sb
    ELSE NoClient

UrlValues == {None, "", "https://x.supabase.co"}
KeyValues == {None, "key"}

----------------------------------------------------------------------------
(* The identity provider *)

Idents == {"u1", "u2"}

\* user.id, user.email, user.user_metadata of the provider's user records
IdentEmail == [u \in Idents |-> IF u = "u1" THEN "u1@mail" ELSE "u2@mail"]
IdentMetadata(u) ==
    IF u = "u1" THEN [picture |-> "pic1"]
    ELSE [avatar_url |-> "ava2", picture |-> "pic2"]

\* An Authorization header is a string, kept as the sequence of its pieces;
\* the piece "Bearer " is the literal scheme prefix.
Bearer == "Bearer "
Headers ==
    IF Solo
    THEN { <<>>, <<"tok1">>, <<"Basic ", "tok1">>, <<"tok1", Bearer>>,
           <<Bearer, "tok1">>, <<Bearer, "tok2">>, <<Bearer, "expired">>,
           <<Bearer, Bearer, "tok1">> }
    ELSE { <<Bearer, "tok1">>, <<Bearer, "tok2">> }

\* authorization.startswith("Bearer ")
StartsWithBearer(h) == Len(h) > 0 /\ h[1] = Bearer

\* authorization.replace("Bearer ", ""): every occurrence is removed
RemoveBearer(h) == SelectSeq(h, LAMBDA c : c # Bearer)

\* the identity a token resolves to at the provider, None for a token it rejects
TokenUser(token) ==
    IF token = <<"tok1">> THEN "u1"
    ELSE IF token = <<"tok2">> THEN "u2"
    ELSE None

\* a call to the provider or a select may fail in transport; a run of several
\* requests leaves these failures out and keeps those of the inserts
TransportFailures == IF Solo THEN {"raise"} ELSE {}

\* supabase.auth.get_user(token): the user of a good token, no user or an
\* error for a rejected one
GetUserOutcomes(token) ==
    IF TokenUser(token) # None THEN {TokenUser(token)} \cup TransportFailures
    ELSE {None, "raise"}

----------------------------------------------------------------------------
(* The data store *)

\* the ways one insert can end: the row is committed and returned, the call
\* raises, or it returns no rows; a failed insert commits nothing
InsertResults == {"ok", "raise", "empty"}

\* an insert the store refuses for a row it already holds raises as well
Raises == {"raise", "conflict"}

\* rows of a table whose column col equals v: table(..).select("*").eq(col, v)
SelectEq(table, col, v) == SelectSeq(table, LAMBDA row : row[col] = v)

\* users.id is the primary key of users: the store refuses a second row with
\* the same id
UsersInsertResults(row) ==
    IF SelectEq(users, "id", row.id) # <<>> THEN {"conflict"} ELSE InsertResults

\* select on users: the rows, or a transport error
SelectResults == {"rows"} \cup TransportFailures

----------------------------------------------------------------------------
(* Requests *)

NoBody == <<>>

valid_roles == {"elderly", "family_supervisor", "professional"}

\* CompleteProfileRequest
RoleInputs ==
    IF Solo THEN valid_roles \cup {"admin", ""} ELSE {"elderly"}
CompleteProfileRequests ==
    [full_name : {"Ann"}, role : RoleInputs,
     phone : IF Solo THEN {None, "555"} ELSE {None}]

\* CompleteProfessionalRequest
CompleteProfessionalRequests ==
    [full_name : {"Ann"}, phone : {"555"}, professional_email : {"dr@clinic"},
     specialization : {"cardiology"},
     workplace : IF Solo THEN {None, "", "clinic"} ELSE {"clinic"}]

\* a string with a separator, kept as its separator and the pieces between
DateInputs ==
    { [sep |-> "/", parts |-> <<"15", "03", "1990">>] }
    \cup IF Solo THEN { [sep |-> "-", parts |-> <<"1990", "03", "15">>] } ELSE {}

\* s.split("/")
SplitSlash(s) == IF s.sep = "/" THEN s.parts ELSE <<s>>

\* date_of_birth from DD/MM/YYYY to YYYY-MM-DD; anything else is passed on
DateOfBirthIso(s) ==
    LET date_parts == SplitSlash(s)
    IN  IF Len(date_parts) = 3
        THEN [sep |-> "-", parts |-> <<date_parts[3], date_parts[2], date_parts[1]>>]
        ELSE s

\* the sequences over S of length n at most
RECURSIVE SeqsUpTo(_, _)
SeqsUpTo(S, n) ==
    IF n = 0 THEN { <<>> }
    ELSE LET shorter == SeqsUpTo(S, n - 1)
         IN  shorter \cup { Append(q, x) : q \in shorter, x \in S }

\* the lists of a caregiver request; a run of several requests keeps to the
\* one request allergies=["peanuts"], conditions=[], medications=[]
AllergyLists ==
    IF Solo THEN SeqsUpTo({"peanuts", "aspirin"}, MaxList) ELSE { <<"peanuts">> }
ConditionLists ==
    IF Solo THEN SeqsUpTo({"asthma"}, MaxList) ELSE { <<>> }
MedicationLists ==
    IF Solo THEN SeqsUpTo({"aspirin"}, MaxList) ELSE { <<>> }

\* CompleteCaregiverRequest
CompleteCaregiverRequests ==
    [full_name : {"Ann"}, patient_phone : {"555"}, caregiver_phone : {"777"},
     date_of_birth : DateInputs, gender : {"female"}, height_cm : {160},
     weight_kg : {55}, address : {"1 Main St"},
     allergies : AllergyLists, conditions : ConditionLists,
     medications : MedicationLists]

\* a request not yet received
IdleRequest ==
    [pc |-> "idle", route |-> None, authorization |-> <<>>, body |-> NoBody,
     token |-> <<>>, user |-> None, k |-> 0,
     status |-> 0, response |-> [detail |-> None],
     calls |-> <<>>, prior |-> {}]

\* raise HTTPException(status_code, detail)
HTTPException(q, status_code, detail) ==
    [q EXCEPT !.pc = "done", !.status = status_code, !.response = [detail |-> detail]]

\* return a response model, status 200
Return(q, model) ==
    [q EXCEPT !.pc = "done", !.status = 200, !.response = model]

\* the UserProfile response model built from a users row
UserProfile(row) ==
    [id |-> row.id, email |-> row.email, full_name |-> row.full_name,
     avatar_url |-> DictGet(row, "avatar_url"), phone |-> DictGet(row, "phone"),
     role |-> row.role]

\* requests are received in the order of their numbers
CanStart(r) ==
    /\ r \in DOMAIN req
    /\ req[r].pc = "idle"
    /\ IF r = 1 THEN TRUE ELSE req[r - 1].pc # "idle"

\* the requests already answered
Answered == {r \in DOMAIN req : req[r].pc = "done"}

\* the request as it enters its handler; prior keeps which requests had been
\* answered by then
Received(r, route, authorization, body) ==
    [req[r] EXCEPT !.route = route, !.authorization = authorization, !.body = body,
                   !.prior = Answered]

\* one call to the identity provider or to the store, as the request's log
\* keeps it: the client it went through, the operation, the table, the row
\* of an insert, how it ended
NoRow == <<>>
Called(q, client, op, table, row, out) ==
    [q EXCEPT !.calls = Append(@, [client |-> client, op |-> op, table |-> table,
                                   row |-> row, out |-> out])]

----------------------------------------------------------------------------
(* Steps the handlers share, statement for statement *)

Unconfigured == supabase = NoClient \/ supabase_admin = NoClient

\* user_response = supabase.auth.get_user(token); user = user_response.user
\* inside the handler's try: no user is 401, any other exception is 500
GetUser(q, out) ==
    LET called == Called(q, supabase, "get_user", None, NoRow, out)
    IN  IF out = "raise" THEN HTTPException(called, 500, "str(e)")
        ELSE IF out = None THEN HTTPException(called, 401, "Invalid token")
        ELSE [called EXCEPT !.user = out, !.pc = "select_users"]

\* the lookup filters on the email column, which never holds an id
ProfileExistsCheck_WrongColumn(q, out) ==
    LET called == Called(q, supabase_admin, "select", "users", NoRow, out)
        existing == SelectEq(users, "email", q.user)
    IN  IF out = "raise" THEN HTTPException(called, 500, "str(e)")
        ELSE IF Len(existing) > 0
             THEN HTTPException(called, 400, "Profile already exists")
        ELSE [called EXCEPT !.pc = "insert_users"]

\* the lookup is made but its rows are not looked at
ProfileExistsCheck_Ignored(q, out) ==
    LET called == Called(q, supabase_admin, "select", "users", NoRow, out)
    IN  IF out = "raise" THEN HTTPException(called, 500, "str(e)")
        ELSE [called EXCEPT !.pc = "insert_users"]

\* existing = supabase_admin.table("users").select("*").eq("id", user.id).execute()
ProfileExistsCheck(q, out) ==
    LET called == Called(q, supabase_admin, "select", "users", NoRow, out)
        existing == SelectEq(users, "id", q.user)
    IN  IF out = "raise" THEN HTTPException(called, 500, "str(e)")
        ELSE IF Len(existing) > 0
             THEN HTTPException(called, 400, "Profile already exists")
        ELSE [called EXCEPT !.pc = "insert_users"]

\* metadata.get("avatar_url") or metadata.get("picture")
AvatarUrl(user) ==
    LET metadata == IdentMetadata(user)
    IN  PyOr(DictGet(metadata, "avatar_url"), DictGet(metadata, "picture"))

\* supabase_admin.table(table).insert(row).execute()
Issued(q, table, row, out) == Called(q, supabase_admin, "insert", table, row, out)

\* the table after an insert that ended with out
Inserted(table, row, out) == IF out = "ok" THEN Append(table, row) ELSE table

----------------------------------------------------------------------------
(* GET /health *)

\* the admin client is compared with None, not with the anon client
HealthResponse_IsNotNone ==
    [status |-> "ok",
     supabase_connected |-> supabase # NoClient,
     service_role_enabled |-> supabase_admin # NoClient]

HealthResponse ==
    [status |-> "ok",
     supabase_connected |-> supabase # NoClient,
     service_role_enabled |-> supabase_admin # supabase]

health_check(r) ==
    /\ CanStart(r)
    /\ req' = [req EXCEPT ![r] =
                 Return(Received(r, "health_check", <<>>, NoBody), HealthResponse)]
    /\ UNCHANGED <<env, tables>>

----------------------------------------------------------------------------
(* POST /auth/complete-profile *)

\* the role is not validated on entry
CompleteProfileChecks_NoRoleCheck(q) ==
    IF Unconfigured THEN HTTPException(q, 500, "Supabase not configured")
    ELSE IF ~StartsWithBearer(q.authorization)
         THEN HTTPException(q, 401, "Invalid authorization header")
    ELSE [q EXCEPT !.pc = "get_user", !.token = RemoveBearer(q.authorization)]

CompleteProfileChecks(q) ==
    IF Unconfigured THEN HTTPException(q, 500, "Supabase not configured")
    ELSE IF q.body.role \notin valid_roles THEN HTTPException(q, 400, "Invalid role")
    ELSE IF ~StartsWithBearer(q.authorization)
         THEN HTTPException(q, 401, "Invalid authorization header")
    ELSE [q EXCEPT !.pc = "get_user", !.token = RemoveBearer(q.authorization)]

CompleteProfileNewUser(q) ==
    [id |-> q.user, email |-> IdentEmail[q.user], full_name |-> q.body.full_name,
     avatar_url |-> AvatarUrl(q.user), phone |-> q.body.phone, role |-> q.body.role]

CompleteProfileInserted(q, new_user, out) ==
    LET called == Issued(q, "users", new_user, out)
    IN  IF out \in Raises THEN HTTPException(called, 500, "str(e)")
        ELSE IF out = "empty" THEN HTTPException(called, 500, "Failed to create profile")
        ELSE Return(called, UserProfile(new_user))

complete_profile_begin(r) ==
    /\ CanStart(r)
    /\ \E h \in Headers, b \in CompleteProfileRequests :
         req' = [req EXCEPT ![r] =
                   CompleteProfileChecks(Received(r, "complete_profile", h, b))]
    /\ UNCHANGED <<env, tables>>

complete_profile_get_user(r) ==
    /\ r \in DOMAIN req
    /\ req[r].route = "complete_profile" /\ req[r].pc = "get_user"
    /\ \E out \in GetUserOutcomes(req[r].token) :
         req' = [req EXCEPT ![r] = GetUser(req[r], out)]
    /\ UNCHANGED <<env, tables>>

complete_profile_select(r) ==
    /\ r \in DOMAIN req
    /\ req[r].route = "complete_profile" /\ req[r].pc = "select_users"
    /\ \E out \in SelectResults :
         req' = [req EXCEPT ![r] = ProfileExistsCheck(req[r], out)]
    /\ UNCHANGED <<env, tables>>

complete_profile_insert(r) ==
    /\ r \in DOMAIN req
    /\ req[r].route = "complete_profile" /\ req[r].pc = "insert_users"
    /\ LET new_user == CompleteProfileNewUser(req[r])
       IN  \E out \in UsersInsertResults(new_user) :
             /\ users' = Inserted(users, new_user, out)
             /\ req' = [req EXCEPT ![r] = CompleteProfileInserted(req[r], new_user, out)]
    /\ UNCHANGED <<env, professional_profiles, elderly_profiles, medical_info>>

----------------------------------------------------------------------------
(* GET /auth/me *)

GetMeChecks(q) ==
    IF Unconfigured THEN HTTPException(q, 500, "Supabase not configured")
    ELSE IF ~StartsWithBearer(q.authorization)
         THEN HTTPException(q, 401, "Invalid authorization header")
    ELSE [q EXCEPT !.pc = "get_user", !.token = RemoveBearer(q.authorization)]

\* the select is not filtered by the caller's id
GetMeSelected_Unfiltered(q, out) ==
    LET called == Called(q, supabase_admin, "select", "users", NoRow, out)
        result == users
    IN  IF out = "raise" THEN HTTPException(called, 500, "str(e)")
        ELSE IF Len(result) = 0 THEN HTTPException(called, 404, "Profile not found")
        ELSE Return(called, UserProfile(result[1]))

\* result = supabase_admin.table("users").select("*").eq("id", user.id).execute()
GetMeSelected(q, out) ==
    LET called == Called(q, supabase_admin, "select", "users", NoRow, out)
        result == SelectEq(users, "id", q.user)
    IN  IF out = "raise" THEN HTTPException(called, 500, "str(e)")
        ELSE IF Len(result) = 0 THEN HTTPException(called, 404, "Profile not found")
        ELSE Return(called, UserProfile(result[1]))

get_me_begin(r) ==
    /\ CanStart(r)
    /\ \E h \in Headers :
         req' = [req EXCEPT ![r] = GetMeChecks(Received(r, "get_me", h, NoBody))]
    /\ UNCHANGED <<env, tables>>

get_me_get_user(r) ==
    /\ r \in DOMAIN req
    /\ req[r].route = "get_me" /\ req[r].pc = "get_user"
    /\ \E out \in GetUserOutcomes(req[r].token) :
         req' = [req EXCEPT ![r] = GetUser(req[r], out)]
    /\ UNCHANGED <<env, tables>>

get_me_select(r) ==
    /\ r \in DOMAIN req
    /\ req[r].route = "get_me" /\ req[r].pc = "select_users"
    /\ \E out \in SelectResults :
         req' = [req EXCEPT ![r] = GetMeSelected(req[r], out)]
    /\ UNCHANGED <<env, tables>>

----------------------------------------------------------------------------
(* POST /auth/complete-professional *)

CompleteProfessionalChecks(q) ==
    IF Unconfigured THEN HTTPException(q, 500, "Supabase not configured")
    ELSE IF ~StartsWithBearer(q.authorization)
         THEN HTTPException(q, 401, "Invalid authorization header")
    ELSE [q EXCEPT !.pc = "get_user", !.token = RemoveBearer(q.authorization)]

\* the users row is keyed by the professional e-mail, not by user.id
CompleteProfessionalNewUser_WrongKey(q) ==
    [id |-> q.body.professional_email, email |-> IdentEmail[q.user],
     full_name |-> q.body.full_name, avatar_url |-> AvatarUrl(q.user),
     phone |-> q.body.phone, role |-> "professional"]

CompleteProfessionalNewUser(q) ==
    [id |-> q.user, email |-> IdentEmail[q.user], full_name |-> q.body.full_name,
     avatar_url |-> AvatarUrl(q.user), phone |-> q.body.phone, role |-> "professional"]

ProfessionalProfile(q) ==
    [user_id |-> q.user, professional_email |-> q.body.professional_email,
     specialization |-> q.body.specialization,
     workplace |-> PyOr(q.body.workplace, None)]

CompleteProfessionalUserInserted(q, new_user, out) ==
    LET called == Issued(q, "users", new_user, out)
    IN  IF out \in Raises THEN HTTPException(called, 500, "str(e)")
        ELSE IF out = "empty"
             THEN HTTPException(called, 500, "Failed to create user profile")
        ELSE [called EXCEPT !.pc = "insert_professional"]

\* prof_result.data is not looked at
CompleteProfessionalProfileInserted_Unchecked(q, professional_profile, out) ==
    LET called == Issued(q, "professional_profiles", professional_profile, out)
    IN  IF out \in Raises THEN HTTPException(called, 500, "str(e)")
        ELSE Return(called, UserProfile(CompleteProfessionalNewUser(q)))

CompleteProfessionalProfileInserted(q, professional_profile, out) ==
    LET called == Issued(q, "professional_profiles", professional_profile, out)
    IN  IF out \in Raises THEN HTTPException(called, 500, "str(e)")
        ELSE IF out = "empty"
             THEN HTTPException(called, 500, "Failed to create professional profile")
        ELSE Return(called, UserProfile(CompleteProfessionalNewUser(q)))

complete_professional_begin(r) ==
    /\ CanStart(r)
    /\ \E h \in Headers, b \in CompleteProfessionalRequests :
         req' = [req EXCEPT ![r] =
                   CompleteProfessionalChecks(Received(r, "complete_professional", h, b))]
    /\ UNCHANGED <<env, tables>>

complete_professional_get_user(r) ==
    /\ r \in DOMAIN req
    /\ req[r].route = "complete_professional" /\ req[r].pc = "get_user"
    /\ \E out \in GetUserOutcomes(req[r].token) :
         req' = [req EXCEPT ![r] = GetUser(req[r], out)]
    /\ UNCHANGED <<env, tables>>

complete_professional_select(r) ==
    /\ r \in DOMAIN req
    /\ req[r].route = "complete_professional" /\ req[r].pc = "select_users"
    /\ \E out \in SelectResults :
         req' = [req EXCEPT ![r] = ProfileExistsCheck(req[r], out)]
    /\ UNCHANGED <<env, tables>>

complete_professional_insert_user(r) ==
    /\ r \in DOMAIN req
    /\ req[r].route = "complete_professional" /\ req[r].pc = "insert_users"
    /\ LET new_user == CompleteProfessionalNewUser(req[r])
       IN  \E out \in UsersInsertResults(new_user) :
             /\ users' = Inserted(users, new_user, out)
             /\ req' = [req EXCEPT ![r] =
                          CompleteProfessionalUserInserted(req[r], new_user, out)]
    /\ UNCHANGED <<env, professional_profiles, elderly_profiles, medical_info>>

complete_professional_insert_profile(r) ==
    /\ r \in DOMAIN req
    /\ req[r].route = "complete_professional" /\ req[r].pc = "insert_professional"
    /\ LET professional_profile == ProfessionalProfile(req[r])
       IN  \E out \in InsertResults :
             /\ professional_profiles' =
                    Inserted(professional_profiles, professional_profile, out)
             /\ req' = [req EXCEPT ![r] =
                          CompleteProfessionalProfileInserted(req[r], professional_profile, out)]
    /\ UNCHANGED <<env, users, elderly_profiles, medical_info>>

----------------------------------------------------------------------------
(* POST /auth/complete-caregiver *)

\* the scheme prefix is stripped but never required
CompleteCaregiverChecks_NoPrefixCheck(q) ==
    IF Unconfigured THEN HTTPException(q, 500, "Supabase not configured")
    ELSE [q EXCEPT !.pc = "get_user", !.token = RemoveBearer(q.authorization)]

CompleteCaregiverChecks(q) ==
    IF Unconfigured THEN HTTPException(q, 500, "Supabase not configured")
    ELSE IF ~StartsWithBearer(q.authorization)
         THEN HTTPException(q, 401, "Invalid authorization header")
    ELSE [q EXCEPT !.pc = "get_user", !.token = RemoveBearer(q.authorization)]

CompleteCaregiverNewUser(q) ==
    [id |-> q.user, email |-> IdentEmail[q.user], full_name |-> q.body.full_name,
     avatar_url |-> AvatarUrl(q.user), phone |-> q.body.patient_phone,
     role |-> "family_supervisor", emergency_contact |-> q.body.caregiver_phone]

ElderlyProfile(q) ==
    [user_id |-> q.user, date_of_birth |-> DateOfBirthIso(q.body.date_of_birth),
     gender |-> q.body.gender, height_cm |-> q.body.height_cm,
     weight_kg |-> q.body.weight_kg, home_address |-> q.body.address]

\* the row one pass of a medical_info loop inserts
MedicalInfo(q, info_type, name) ==
    [elderly_id |-> q.user, info_type |-> info_type, name |-> name, added_by |-> q.user]

\* the rows the three loops insert, in the order they insert them
MedicalInfoRows(q) ==
    [i \in 1..Len(q.body.allergies) |-> MedicalInfo(q, "allergy", q.body.allergies[i])]
    \o [i \in 1..Len(q.body.conditions) |-> MedicalInfo(q, "condition", q.body.conditions[i])]
    \o [i \in 1..Len(q.body.medications) |-> MedicalInfo(q, "medication", q.body.medications[i])]

\* after k passes: the next pass, or the return once the loops are over
CompleteCaregiverLoops(q) ==
    IF q.k < Len(MedicalInfoRows(q)) THEN [q EXCEPT !.pc = "insert_medical"]
    ELSE Return(q, UserProfile(CompleteCaregiverNewUser(q)))

\* user_result.data is not looked at
CompleteCaregiverUserInserted_Unchecked(q, new_user, out) ==
    LET called == Issued(q, "users", new_user, out)
    IN  IF out \in Raises THEN HTTPException(called, 500, "str(e)")
        ELSE [called EXCEPT !.pc = "insert_elderly"]

CompleteCaregiverUserInserted(q, new_user, out) ==
    LET called == Issued(q, "users", new_user, out)
    IN  IF out \in Raises THEN HTTPException(called, 500, "str(e)")
        ELSE IF out = "empty"
             THEN HTTPException(called, 500, "Failed to create user profile")
        ELSE [called EXCEPT !.pc = "insert_elderly"]

CompleteCaregiverElderlyInserted(q, elderly_profile, out) ==
    LET called == Issued(q, "elderly_profiles", elderly_profile, out)
    IN  IF out \in Raises THEN HTTPException(called, 500, "str(e)")
        ELSE IF out = "empty"
             THEN HTTPException(called, 500, "Failed to create elderly profile")
        ELSE CompleteCaregiverLoops(called)

\* the result of a medical_info insert is not looked at: only an exception
\* ends the loop
CompleteCaregiverMedicalInserted(q, row, out) ==
    LET called == Issued(q, "medical_info", row, out)
    IN  IF out \in Raises THEN HTTPException(called, 500, "str(e)")
        ELSE CompleteCaregiverLoops([called EXCEPT !.k = @ + 1])

complete_caregiver_begin(r) ==
    /\ CanStart(r)
    /\ \E h \in Headers, b \in CompleteCaregiverRequests :
         req' = [req EXCEPT ![r] =
                   CompleteCaregiverChecks(Received(r, "complete_caregiver", h, b))]
    /\ UNCHANGED <<env, tables>>

complete_caregiver_get_user(r) ==
    /\ r \in DOMAIN req
    /\ req[r].route = "complete_caregiver" /\ req[r].pc = "get_user"
    /\ \E out \in GetUserOutcomes(req[r].token) :
         req' = [req EXCEPT ![r] = GetUser(req[r], out)]
    /\ UNCHANGED <<env, tables>>

complete_caregiver_select(r) ==
    /\ r \in DOMAIN req
    /\ req[r].route = "complete_caregiver" /\ req[r].pc = "select_users"
    /\ \E out \in SelectResults :
         req' = [req EXCEPT ![r] = ProfileExistsCheck(req[r], out)]
    /\ UNCHANGED <<env, tables>>

complete_caregiver_insert_user(r) ==
    /\ r \in DOMAIN req
    /\ req[r].route = "complete_caregiver" /\ req[r].pc = "insert_users"
    /\ LET new_user == CompleteCaregiverNewUser(req[r])
       IN  \E out \in UsersInsertResults(new_user) :
             /\ users' = Inserted(users, new_user, out)
             /\ req' = [req EXCEPT ![r] =
                          CompleteCaregiverUserInserted(req[r], new_user, out)]
    /\ UNCHANGED <<env, professional_profiles, elderly_profiles, medical_info>>

complete_caregiver_insert_elderly(r) ==
    /\ r \in DOMAIN req
    /\ req[r].route = "complete_caregiver" /\ req[r].pc = "insert_elderly"
    /\ LET elderly_profile == ElderlyProfile(req[r])
       IN  \E out \in InsertResults :
             /\ elderly_profiles' = Inserted(elderly_profiles, elderly_profile, out)
             /\ req' = [req EXCEPT ![r] =
                          CompleteCaregiverElderlyInserted(req[r], elderly_profile, out)]
    /\ UNCHANGED <<env, users, professional_profiles, medical_info>>

complete_caregiver_insert_medical(r) ==
    /\ r \in DOMAIN req
    /\ req[r].route = "complete_caregiver" /\ req[r].pc = "insert_medical"
    /\ LET row == MedicalInfoRows(req[r])[req[r].k + 1]
       IN  \E out \in InsertResults :
             /\ medical_info' = Inserted(medical_info, row, out)
             /\ req' = [req EXCEPT ![r] =
                          CompleteCaregiverMedicalInserted(req[r], row, out)]
    /\ UNCHANGED <<env, users, professional_profiles, elderly_profiles>>

----------------------------------------------------------------------------
(* The service *)

\* the service with its three settings present, receiving MaxReq requests
Init ==
    /\ url \in UrlValues \ {None, ""}
    /\ anon_key \in KeyValues \ {None}
    /\ service_role_key \in KeyValues \ {None}
    /\ supabase = MkSupabase(url, anon_key)
    /\ supabase_admin = MkSupabaseAdmin(url, anon_key, service_role_key, supabase)
    /\ users = <<>>
    /\ professional_profiles = <<>>
    /\ elderly_profiles = <<>>
    /\ medical_info = <<>>
    /\ req = [r \in 1..MaxReq |-> IdleRequest]

\* the service under every combination of settings, receiving one request
InitOne ==
    /\ url \in UrlValues
    /\ anon_key \in KeyValues
    /\ service_role_key \in KeyValues
    /\ supabase = MkSupabase(url, anon_key)
    /\ supabase_admin = MkSupabaseAdmin(url, anon_key, service_role_key, supabase)
    /\ users = <<>>
    /\ professional_profiles = <<>>
    /\ elderly_profiles = <<>>
    /\ medical_info = <<>>
    /\ req = [r \in {1} |-> IdleRequest]

Next ==
    \E r \in 1..MaxReq :
        \/ health_check(r)
        \/ complete_profile_begin(r)
        \/ complete_profile_get_user(r)
        \/ complete_profile_select(r)
        \/ complete_profile_insert(r)
        \/ get_me_begin(r)
        \/ get_me_get_user(r)
        \/ get_me_select(r)
        \/ complete_professional_begin(r)
        \/ complete_professional_get_user(r)
        \/ complete_professional_select(r)
        \/ complete_professional_insert_user(r)
        \/ complete_professional_insert_profile(r)
        \/ complete_caregiver_begin(r)
        \/ complete_caregiver_get_user(r)
        \/ complete_caregiver_select(r)
        \/ complete_caregiver_insert_user(r)
        \/ complete_caregiver_insert_elderly(r)
        \/ complete_caregiver_insert_medical(r)

Spec == Init /\ [][Next]_vars

SpecOne == InitOne /\ [][Next]_vars

----------------------------------------------------------------------------
(* Properties *)

WasReceived(r) == r \in DOMAIN req /\ req[r].pc # "idle"
Done(r) == r \in DOMAIN req /\ req[r].pc = "done"

ProtectedRoutes ==
    {"complete_profile", "complete_professional", "complete_caregiver", "get_me"}
OnboardingRoutes ==
    {"complete_profile", "complete_professional", "complete_caregiver"}

\* the calls of a request's log that satisfy P
CallsWhere(q, P(_)) == SelectSeq(q.calls, P)
IsStoreCall(c) == c.op \in {"select", "insert"}
IsInsert(c) == c.op = "insert"

StoreEmpty ==
    /\ users = <<>>
    /\ professional_profiles = <<>>
    /\ elderly_profiles = <<>>
    /\ medical_info = <<>>

\* a protected route received a header without the "Bearer " prefix
MalformedHeader(r) ==
    /\ WasReceived(r)
    /\ req[r].route \in ProtectedRoutes
    /\ ~StartsWithBearer(req[r].authorization)

InvalidRole(r) ==
    /\ WasReceived(r)
    /\ req[r].route = "complete_profile"
    /\ req[r].body.role \notin {"elderly", "family_supervisor", "professional"}

\* C1, as stated: on every protected route a header without the "Bearer "
\* prefix is answered 401 with no call to the provider or the store, whatever
\* the body and the client configuration.
C1_AlwaysUnauthorized ==
    \A r \in DOMAIN req :
        MalformedHeader(r) =>
            /\ Done(r)
            /\ req[r].status = 401
            /\ req[r].calls = <<>>

\* C1, amended: on every protected route a header without the "Bearer "
\* prefix is answered at once, with no call to the provider or the store and
\* nothing written: 500 when a client is not configured, else 400 on
\* /auth/complete-profile with an invalid role, else 401.
C1_Unauthorized ==
    \A r \in DOMAIN req :
        MalformedHeader(r) =>
            /\ Done(r)
            /\ req[r].calls = <<>>
            /\ StoreEmpty
            /\ req[r].status =
                   IF supabase = NoClient \/ supabase_admin = NoClient THEN 500
                   ELSE IF InvalidRole(r) THEN 400
                   ELSE 401

\* a configured service answers 401 to a header that holds "Bearer " but does
\* not start with it
C1_Witness ==
    \E r \in DOMAIN req :
        /\ MalformedHeader(r)
        /\ req[r].route = "complete_caregiver"
        /\ req[r].authorization = <<"tok1", Bearer>>
        /\ req[r].status = 401

\* C2, as stated: /auth/complete-profile answers every request with an
\* invalid role 400, before any call to the provider or the store.
C2_AlwaysInvalidArgument ==
    \A r \in DOMAIN req :
        InvalidRole(r) =>
            /\ Done(r)
            /\ req[r].status = 400
            /\ req[r].calls = <<>>
            /\ StoreEmpty

\* C2, amended: /auth/complete-profile answers every request with an invalid
\* role before any call to the provider or the store, 400 when both clients
\* are configured and 500 when one is not.
C2_InvalidArgument ==
    \A r \in DOMAIN req :
        InvalidRole(r) =>
            /\ Done(r)
            /\ req[r].calls = <<>>
            /\ StoreEmpty
            /\ req[r].status =
                   IF supabase = NoClient \/ supabase_admin = NoClient THEN 500 ELSE 400

\* an invalid role with a good bearer token is answered 400
C2_Witness ==
    \E r \in DOMAIN req :
        /\ InvalidRole(r)
        /\ req[r].body.role = "admin"
        /\ req[r].authorization = <<Bearer, "tok1">>
        /\ req[r].status = 400

\* the positions in a request's log of the inserts into table that ended with
\* one of outs
InsertsAt(q, table, outs) ==
    {i \in 1..Len(q.calls) :
        /\ q.calls[i].op = "insert"
        /\ q.calls[i].table = table
        /\ q.calls[i].out \in outs}

Failed == {"raise", "empty", "conflict"}

\* the store answered every call of the request: nothing raised in transport,
\* no insert came back without rows
StoreAnswered(r) ==
    \A i \in 1..Len(req[r].calls) : req[r].calls[i].out \notin {"raise", "empty"}

\* request a was answered before request b was received
Before(a, b) == a \in req[b].prior

\* no other request was in flight while request a was
Alone(a) ==
    \A c \in DOMAIN req \ {a} : req[c].pc = "idle" \/ Before(c, a) \/ Before(a, c)

\* no request answered before a had committed a users row for identity u
NoRowBefore(a, u) ==
    \A c \in req[a].prior :
        \A i \in InsertsAt(req[c], "users", {"ok"}) : req[c].calls[i].row.id # u

\* two /auth/complete-profile requests of one verified identity, the second
\* received after the first was answered, the first run on its own from a
\* store without a users row of the identity, the store answering both
TwiceInARow(a, b) ==
    /\ req[a].route = "complete_profile" /\ req[b].route = "complete_profile"
    /\ Done(a) /\ Done(b)
    /\ Before(a, b)
    /\ req[a].user # None /\ req[b].user = req[a].user
    /\ Alone(a)
    /\ NoRowBefore(a, req[a].user)
    /\ StoreAnswered(a) /\ StoreAnswered(b)

\* C3: of two valid /auth/complete-profile requests of one verified identity
\* run one after the other, from a store without a users row of the identity,
\* the first returns 200 and commits exactly one users row, the second returns
\* 400 "Profile already exists" and issues no insert, and the store holds
\* exactly one users row of the identity.
C3_OnceThenAlreadyExists ==
    \A a, b \in DOMAIN req :
        TwiceInARow(a, b) =>
            /\ req[a].status = 200
            /\ Cardinality(InsertsAt(req[a], "users", {"ok"})) = 1
            /\ Cardinality(InsertsAt(req[a], "users", Failed)) = 0
            /\ req[b].status = 400
            /\ req[b].response = [detail |-> "Profile already exists"]
            /\ CallsWhere(req[b], IsInsert) = <<>>
            /\ Len(SelectEq(users, "id", req[a].user)) = 1

C3_Witness ==
    \E a, b \in DOMAIN req :
        /\ TwiceInARow(a, b)
        /\ req[a].status = 200
        /\ req[b].status = 400

\* the users rows committed by the requests of identity u
CommitsOf(u) ==
    UNION { { <<r, i>> : i \in InsertsAt(req[r], "users", {"ok"}) } :
            r \in {c \in DOMAIN req : req[c].user = u} }

\* C4: in every reachable state the store holds at most one users row per
\* identity, and the requests of one identity have committed at most one,
\* though concurrent onboarding requests of the identity may each pass the
\* existence check and each issue its insert.
C4_AtMostOneUsersRow ==
    /\ \A m, n \in 1..Len(users) : users[m].id = users[n].id => m = n
    /\ \A u \in Idents : Cardinality(CommitsOf(u)) <= 1

\* two requests of one identity, on different routes, both found no row, both
\* issued the insert into users: the store took one and refused the other
C4_Witness ==
    \E a, b \in DOMAIN req :
        /\ req[a].user # None /\ req[a].user = req[b].user
        /\ req[a].route = "complete_professional"
        /\ req[b].route = "complete_caregiver"
        /\ InsertsAt(req[a], "users", {"ok"}) # {}
        /\ InsertsAt(req[b], "users", {"conflict"}) # {}
        /\ Len(SelectEq(users, "id", req[a].user)) = 1

\* the users insert of a /auth/complete-professional request succeeded and its
\* professional_profiles insert then failed with out
SecondInsertFailed(r, i, j) ==
    /\ req[r].route = "complete_professional"
    /\ i < j
    /\ req[r].calls[i].op = "insert"
    /\ req[r].calls[i].table = "users"
    /\ req[r].calls[i].out = "ok"
    /\ req[r].calls[j].op = "insert"
    /\ req[r].calls[j].table = "professional_profiles"
    /\ req[r].calls[j].out \in Failed

\* C5: when the users insert of /auth/complete-professional succeeds and the
\* professional_profiles insert then raises or returns no rows, the request
\* ends with 500, the failed insert is its last call (no compensating write)
\* and the users row, with role professional, stays in the store.
C5_NoCompensation ==
    \A r \in {c \in DOMAIN req : req[c].route = "complete_professional"} :
      \A i, j \in 1..Len(req[r].calls) :
        SecondInsertFailed(r, i, j) =>
            /\ Done(r)
            /\ req[r].status = 500
            /\ j = Len(req[r].calls)
            /\ \E n \in 1..Len(users) :
                  /\ users[n] = req[r].calls[i].row
                  /\ users[n].id = req[r].user
                  /\ users[n].role = "professional"

\* the professional_profiles insert returned no rows
C5_Witness ==
    \E r \in {c \in DOMAIN req : req[c].route = "complete_professional"} :
      \E i, j \in 1..Len(req[r].calls) :
        /\ SecondInsertFailed(r, i, j)
        /\ req[r].calls[j].out = "empty"
        /\ req[r].status = 500
        /\ professional_profiles = <<>>

\* the table a name stands for
TableOf(name) ==
    IF name = "users" THEN users
    ELSE IF name = "professional_profiles" THEN professional_profiles
    ELSE IF name = "elderly_profiles" THEN elderly_profiles
    ELSE medical_info

\* row is in table
Holds(table, row) == \E n \in 1..Len(table) : table[n] = row

\* C6, as stated: in /auth/complete-caregiver the failure of any one insert of
\* the chain (users, elderly_profiles, any medical_info row), raised or
\* returning no rows, ends the request with 500 at that step: it is the
\* request's last call, and the rows inserted before it remain.
C6_FailureEndsRequest ==
    \A r \in DOMAIN req : \A j \in 1..Len(req[r].calls) :
        ( /\ req[r].route = "complete_caregiver"
          /\ req[r].calls[j].op = "insert"
          /\ req[r].calls[j].out \in Failed )
        =>  /\ Done(r)
            /\ req[r].status = 500
            /\ j = Len(req[r].calls)
            /\ \A i \in 1..(j - 1) :
                  (req[r].calls[i].op = "insert" /\ req[r].calls[i].out = "ok")
                  => Holds(TableOf(req[r].calls[i].table), req[r].calls[i].row)

\* the medical_info rows a list of entries stands for
TaggedRows(list, info_type, id) ==
    [n \in 1..Len(list) |->
        [elderly_id |-> id, info_type |-> info_type, name |-> list[n], added_by |-> id]]

\* the tables of the inserts a request issued, in order
InsertOrder(q) ==
    LET ins == CallsWhere(q, IsInsert)
    IN  [n \in 1..Len(ins) |-> ins[n].table]

\* C7, as stated: a /auth/complete-caregiver request that returns 200 has
\* inserted exactly one medical_info row per entry of allergies, conditions
\* and medications, in that order, after the users and elderly_profiles rows,
\* each with its list's info_type, the entry as name, and the verified
\* identity as elderly_id and added_by.
C7_OneRowPerEntry ==
    \A r \in DOMAIN req :
        (Done(r) /\ req[r].route = "complete_caregiver" /\ req[r].status = 200)
        =>  LET b == req[r].body
                expected == TaggedRows(b.allergies, "allergy", req[r].user)
                            \o TaggedRows(b.conditions, "condition", req[r].user)
                            \o TaggedRows(b.medications, "medication", req[r].user)
            IN  /\ medical_info = expected
                /\ InsertOrder(req[r]) =
                       <<"users", "elderly_profiles">>
                       \o [n \in 1..Len(expected) |-> "medical_info"]

\* the provider was asked about the request's token and rejected it, by
\* returning no user or by raising
TokenRejected(r) ==
    /\ Done(r)
    /\ req[r].route \in ProtectedRoutes
    /\ StartsWithBearer(req[r].authorization)
    /\ TokenUser(req[r].token) = None
    /\ \E i \in 1..Len(req[r].calls) : req[r].calls[i].op = "get_user"

\* C8, as stated: on the protected routes a bearer token the provider rejects,
\* by returning no user or by raising, ends with 401, and the request neither
\* reads nor writes the store.
C8_RejectedIsUnauthorized ==
    \A r \in DOMAIN req :
        TokenRejected(r) =>
            /\ req[r].status = 401
            /\ CallsWhere(req[r], IsStoreCall) = <<>>
            /\ StoreEmpty

\* request r of GET /auth/me, its token verified, gets the store's answer to
\* its select in this step
MeAnswered(r) ==
    /\ req[r].route = "get_me"
    /\ req[r].pc = "select_users"
    /\ req[r].user # None
    /\ req'[r].pc = "done"
    /\ req'[r].calls[Len(req'[r].calls)].out = "rows"

\* the response carries the six fields of the row
IsProfileOf(response, row) ==
    /\ DOMAIN response = {"id", "email", "full_name", "avatar_url", "phone", "role"}
    /\ \A f \in DOMAIN response : response[f] = row[f]

\* C9: GET /auth/me with a valid token, once the store answers its lookup,
\* returns 200 with the identity's users row exactly when the store holds a
\* users row of the identity, whatever request left it there, and 404 when it
\* holds none; no step of GET /auth/me changes a table.
C9_MeReflectsStore ==
    [][ \A r \in DOMAIN req :
          /\ MeAnswered(r) =>
                LET rows == SelectEq(users, "id", req[r].user)
                IN  IF Len(rows) > 0
                    THEN /\ req'[r].status = 200
                         /\ IsProfileOf(req'[r].response, rows[1])
                         /\ rows[1].email = IdentEmail[req[r].user]
                    ELSE /\ req'[r].status = 404
                         /\ req'[r].response = [detail |-> "Profile not found"]
          /\ (req'[r].route = "get_me" /\ req'[r] # req[r]) =>
                /\ tables' = tables
                /\ CallsWhere(req'[r], IsInsert) = <<>>
      ]_vars

\* GET /auth/me returns the row a /auth/complete-professional request left
\* behind when it ended with 500
C9_Witness ==
    \E a, b \in DOMAIN req :
        /\ Done(a) /\ Done(b) /\ Before(a, b)
        /\ req[a].route = "complete_professional"
        /\ req[a].status = 500
        /\ InsertsAt(req[a], "users", {"ok"}) # {}
        /\ req[b].route = "get_me"
        /\ req[b].user = req[a].user
        /\ req[b].status = 200
        /\ req[b].response.role = "professional"

\* C10: for every combination of store URL, restricted key and elevated key,
\* GET /health reports service_role_enabled true exactly when the elevated
\* client was built from the elevated key (URL and elevated key both set),
\* and false when the elevated client is the restricted one or when there is
\* no client.
C10_ServiceRoleEnabled ==
    \A r \in DOMAIN req :
        (Done(r) /\ req[r].route = "health_check") =>
            LET enabled == req[r].response.service_role_enabled
            IN  /\ enabled = (Truthy(url) /\ Truthy(service_role_key))
                /\ enabled => supabase_admin = ServiceClient
                /\ (supabase_admin = supabase) => ~enabled
                /\ (supabase_admin = NoClient) => ~enabled

\* without the elevated key the elevated client is the restricted one and
\* service_role_enabled is false
C10_Witness ==
    \E r \in DOMAIN req :
        /\ Done(r) /\ req[r].route = "health_check"
        /\ service_role_key = None
        /\ supabase_admin = AnonClient
        /\ req[r].response.service_role_enabled = FALSE

\* the table a dependent table's rows point into, and the columns of the link
ParentOf(name) == IF name = "medical_info" THEN "elderly_profiles" ELSE "users"
ChildKey(name) == IF name = "medical_info" THEN "elderly_id" ELSE "user_id"
ParentKey(name) == IF name = "users" THEN "id" ELSE "user_id"

DependentTables == {"professional_profiles", "elderly_profiles", "medical_info"}

\* every row of the dependent table has its parent row in the store
HasParents(name) ==
    LET child == TableOf(name)
        parent == TableOf(ParentOf(name))
    IN  \A n \in 1..Len(child) :
            \E m \in 1..Len(parent) :
                parent[m][ParentKey(ParentOf(name))] = child[n][ChildKey(name)]

\* every insert into a dependent table that a request issued comes after an
\* insert of the parent row by the same request that returned the row
IssuedAfterParent(r) ==
    \A j \in 1..Len(req[r].calls) :
        LET c == req[r].calls[j]
        IN  (c.op = "insert" /\ c.table \in DependentTables) =>
                \E i \in 1..(j - 1) :
                    LET p == req[r].calls[i]
                    IN  /\ p.op = "insert"
                        /\ p.table = ParentOf(c.table)
                        /\ p.out = "ok"
                        /\ p.row[ParentKey(p.table)] = c.row[ChildKey(c.table)]

\* C11: in every reachable state, under any interleaving of onboarding
\* requests and any pattern of insert failures, every professional_profiles
\* row and every elderly_profiles row has a users row whose id is its user_id,
\* and every medical_info row has an elderly_profiles row whose user_id is its
\* elderly_id; each dependent insert is issued only after the parent insert of
\* the same request returned a row.
C11_ParentsExist ==
    /\ \A name \in DependentTables : HasParents(name)
    /\ \A r \in DOMAIN req : IssuedAfterParent(r)

\* two requests of different identities have run side by side, one has left
\* its professional_profiles row and the other its medical_info row, the
\* second received before the first was answered
C11_Witness ==
    /\ Len(professional_profiles) > 0
    /\ Len(medical_info) > 0
    /\ \E a, b \in DOMAIN req :
          /\ a # b /\ Done(a) /\ Done(b)
          /\ ~Before(a, b) /\ ~Before(b, a)

\* request a is a professional or caregiver onboarding request that committed
\* its users row, then had a later insert fail, and was answered
PartialOnboarding(a) ==
    /\ Done(a)
    /\ req[a].route \in {"complete_professional", "complete_caregiver"}
    /\ \E i \in InsertsAt(req[a], "users", {"ok"}) :
          \E j \in (i + 1)..Len(req[a].calls) :
              /\ req[a].calls[j].op = "insert"
              /\ req[a].calls[j].out \in Failed

\* request b is an onboarding request received after a was answered and
\* verified as the identity of a
LaterBySameIdentity(a, b) ==
    /\ Before(a, b)
    /\ req[b].route \in OnboardingRoutes
    /\ req[b].user = req[a].user

\* the rows of the dependent table that belong to identity u
RowsOf(name, u) ==
    { n \in 1..Len(TableOf(name)) : TableOf(name)[n][ChildKey(name)] = u }

\* C12: once a professional or caregiver onboarding request has committed its
\* users row and then failed on a later insert, every later onboarding request
\* of the same identity on any of the three routes issues no insert and, the
\* store answering its lookup, ends with 400 "Profile already exists"; the
\* dependent tables hold for the identity only the rows the failed request
\* itself committed, so the missing rows are never created.
C12_PartialStateIsPermanent ==
    \A a \in DOMAIN req :
        PartialOnboarding(a) =>
            /\ \A b \in DOMAIN req :
                  LaterBySameIdentity(a, b) =>
                      /\ CallsWhere(req[b], IsInsert) = << >>
                      /\ (Done(b) /\ StoreAnswered(b)) =>
                            /\ req[b].status = 400
                            /\ req[b].response = [detail |-> "Profile already exists"]
            /\ \A name \in DependentTables :
                  Cardinality(RowsOf(name, req[a].user)) =
                      Cardinality(InsertsAt(req[a], name, {"ok"}))

\* a request committed its users row and failed on the insert after it, a
\* later request of the same identity on another route was answered, and the
\* identity still has no row in the table of the failed insert
C12_Witness ==
    \E a, b \in DOMAIN req :
        /\ PartialOnboarding(a)
        /\ LaterBySameIdentity(a, b)
        /\ req[b].route # req[a].route
        /\ Done(b)
        /\ req[a].status = 500
        /\ \E name \in DependentTables :
              /\ InsertsAt(req[a], name, Failed) # {}
              /\ RowsOf(name, req[a].user) = {}

====
